---------------------------- MODULE Spec2Model ----------------------------
(***************************************************************************)
(* Model of the Data-Extractor repository: the pattern specification       *)
(* parser (parsePatterns), the line-oriented pattern extractor             *)
(* (extractDataFromText), the delimited-text extractor                     *)
(* (extractDataFromCsv), the App component's extraction state and result   *)
(* table, and the exporters exportToCsv and exportToWord.                  *)
(*                                                                         *)
(* A JavaScript string is a sequence of one-character strings.  A value    *)
(* that may be null or undefined is Null or Some(v).  A JavaScript object  *)
(* is the sequence of its own enumerable properties <<key, value>> in      *)
(* Object.keys order.                                                      *)
(***************************************************************************)
EXTENDS Integers, Sequences, FiniteSets, TLC

VARIABLES
    patternString,  \* parsePatterns: its argument in the latest call
    parsed,         \* parsePatterns: [fieldName, pattern] destructured per line
    patternMap,     \* parsePatterns: the object it returned
    call,           \* the latest settled extractor promise, with its inputs
    ref,            \* an earlier settled extractor promise, kept for comparison
    since,          \* the number of extractor calls settled since ref was kept
    file,           \* App state: file
    prompt,         \* App state: prompt
    extractedData,  \* App state: extractedData
    error,          \* App state: error
    isLoading,      \* App state: isLoading
    pending,        \* App: the extractor call handleExtract is awaiting
    download        \* the file the latest export handed to the browser

vars == <<patternString, parsed, patternMap, call, ref, since,
          file, prompt, extractedData, error, isLoading, pending, download>>

\* null and undefined: an optional value is Null or Some(v)
Null == <<>>
Some(v) == <<v>>

-----------------------------------------------------------------------------
(* Strings *)

LF == "\n"
CR == "\r"
TAB == "\t"
QUOTE == "\""
BACKSLASH == "\\"

\* the white space String.prototype.trim strips
WhiteSpace == {" ", TAB, CR, LF}

\* the characters "." of a RegExp does not match
LineTerminators == {LF, CR}

Digits == <<"0", "1", "2", "3", "4", "5", "6", "7", "8", "9">>

LowerCase == <<"a", "b", "c", "d", "e", "f", "g", "h", "i", "j", "k", "l", "m",
               "n", "o", "p", "q", "r", "s", "t", "u", "v", "w", "x", "y", "z">>

UpperCase == <<"A", "B", "C", "D", "E", "F", "G", "H", "I", "J", "K", "L", "M",
               "N", "O", "P", "Q", "R", "S", "T", "U", "V", "W", "X", "Y", "Z">>

Range(f) == {f[i] : i \in DOMAIN f}

IsDigit(c) == c \in Range(Digits)

IsWordChar(c) == c \in Range(Digits) \cup Range(LowerCase) \cup Range(UpperCase) \cup {"_"}

\* String.prototype.toUpperCase on one character
ToUpper(c) ==
    IF c \in Range(LowerCase)
    THEN UpperCase[CHOOSE i \in DOMAIN LowerCase : LowerCase[i] = c]
    ELSE c

\* String.prototype.toLowerCase
ToLowerCase(s) ==
    [i \in DOMAIN s |->
        IF s[i] \in Range(UpperCase)
        THEN LowerCase[CHOOSE k \in DOMAIN UpperCase : UpperCase[k] = s[i]]
        ELSE s[i]]

\* String.prototype.endsWith
EndsWith(s, suffix) ==
    /\ Len(s) >= Len(suffix)
    /\ SubSeq(s, Len(s) - Len(suffix) + 1, Len(s)) = suffix

RECURSIVE TrimStart(_)
TrimStart(s) ==
    IF s # <<>> /\ Head(s) \in WhiteSpace THEN TrimStart(Tail(s)) ELSE s

RECURSIVE TrimEnd(_)
TrimEnd(s) ==
    IF s # <<>> /\ s[Len(s)] \in WhiteSpace
    THEN TrimEnd(SubSeq(s, 1, Len(s) - 1))
    ELSE s

\* String.prototype.trim
Trim(s) == TrimEnd(TrimStart(s))

\* String.prototype.split(sep) for a one-character separator: always at
\* least one piece
RECURSIVE SplitFrom(_, _, _)
SplitFrom(s, sep, piece) ==
    IF s = <<>> THEN <<piece>>
    ELSE IF Head(s) = sep THEN <<piece>> \o SplitFrom(Tail(s), sep, <<>>)
    ELSE SplitFrom(Tail(s), sep, Append(piece, Head(s)))

Split(s, sep) == SplitFrom(s, sep, <<>>)

\* String.prototype.replace(/"/g, "")
StripQuotes(s) == SelectSeq(s, LAMBDA c : c # QUOTE)

\* Number.prototype.toString for a non-negative integer
RECURSIVE NumberToString(_)
NumberToString(n) ==
    IF n < 10 THEN <<Digits[n + 1]>>
    ELSE Append(NumberToString(n \div 10), Digits[(n % 10) + 1])

\* text.split("\n").filter((line) => line.trim())
NonBlankLines(text) == SelectSeq(Split(text, LF), LAMBDA line : Trim(line) # <<>>)

-----------------------------------------------------------------------------
(* RegExp: the pattern language of the platform, for the sources built from  *)
(* literal characters, ".", "\d", "\w", escaped punctuation, capture groups  *)
(* and the greedy quantifiers "*" and "+".                                   *)

Node(kind, ch, body, idx) == [kind |-> kind, ch |-> ch, body |-> body, idx |-> idx, quant |-> ""]

ParseFail == [ok |-> FALSE, terms |-> <<>>, pos |-> 0, ng |-> 0]

\* the parser of new RegExp(source): the terms from position pos up to the
\* end of the source or an unconsumed ")"; ng counts the groups opened so far
RECURSIVE ParseTerms(_, _, _)
ParseTerms(src, pos, ng) ==
    IF pos > Len(src) \/ src[pos] = ")"
    THEN [ok |-> TRUE, terms |-> <<>>, pos |-> pos, ng |-> ng]
    ELSE IF src[pos] \in {"*", "+"} THEN ParseFail    \* nothing to repeat
    ELSE IF src[pos] = BACKSLASH /\ pos = Len(src) THEN ParseFail  \* \ at end of pattern
    ELSE
      LET c == src[pos]
          inner == ParseTerms(src, pos + 1, ng + 1)
          closed == inner.ok /\ inner.pos <= Len(src)
          atom ==
            IF c = "(" THEN Node("group", "", inner.terms, ng + 1)
            ELSE IF c = "." THEN Node("dot", "", <<>>, 0)
            ELSE IF c = BACKSLASH THEN
                IF src[pos + 1] = "d" THEN Node("digit", "", <<>>, 0)
                ELSE IF src[pos + 1] = "w" THEN Node("word", "", <<>>, 0)
                ELSE Node("char", src[pos + 1], <<>>, 0)
            ELSE Node("char", c, <<>>, 0)
          next == IF c = "(" THEN inner.pos + 1
                  ELSE IF c = BACKSLASH THEN pos + 2
                  ELSE pos + 1
          groups == IF c = "(" THEN inner.ng ELSE ng
          quantified == next <= Len(src) /\ src[next] \in {"*", "+"}
          term == IF quantified THEN [atom EXCEPT !.quant = src[next]] ELSE atom
          rest == ParseTerms(src, IF quantified THEN next + 1 ELSE next, groups)
      IN  IF c = "(" /\ ~closed THEN ParseFail          \* unterminated group
          ELSE IF ~rest.ok THEN ParseFail
          ELSE [ok |-> TRUE, terms |-> <<term>> \o rest.terms,
                pos |-> rest.pos, ng |-> rest.ng]

\* new RegExp(source, flags) throws a SyntaxError exactly when ~Compiles(source)
Compiles(source) ==
    LET r == ParseTerms(source, 1, 0) IN r.ok /\ r.pos > Len(source)

\* the RegExp object new RegExp(source, ignoreCase ? "i" : "")
RegExpOf(source, ignoreCase) ==
    [source |-> source, ignoreCase |-> ignoreCase,
     terms |-> ParseTerms(source, 1, 0).terms]

NoCapture == [set |-> FALSE, from |-> 0, to |-> 0]

CharEq(a, b, ignoreCase) == IF ignoreCase THEN ToUpper(a) = ToUpper(b) ELSE a = b

\* The backtracking matcher: each operator returns the ways to match from
\* pos, in the order the engine tries them, as [end, cap] where cap is what
\* capture group 1 holds.
RECURSIVE MatchTerms(_, _, _, _, _, _)
RECURSIVE MatchRest(_, _, _, _, _, _)
RECURSIVE MatchTerm(_, _, _, _, _)
RECURSIVE MatchAtom(_, _, _, _, _)
RECURSIVE MatchStar(_, _, _, _, _)
RECURSIVE MatchMore(_, _, _, _, _)

MatchTerms(terms, i, s, pos, cap, ic) ==
    IF i > Len(terms) THEN <<[end |-> pos, cap |-> cap]>>
    ELSE MatchRest(MatchTerm(terms[i], s, pos, cap, ic), 1, terms, i + 1, s, ic)

MatchRest(firsts, k, terms, i, s, ic) ==
    IF k > Len(firsts) THEN <<>>
    ELSE MatchTerms(terms, i, s, firsts[k].end, firsts[k].cap, ic)
            \o MatchRest(firsts, k + 1, terms, i, s, ic)

MatchTerm(t, s, pos, cap, ic) ==
    IF t.quant = "" THEN MatchAtom(t, s, pos, cap, ic)
    ELSE IF t.quant = "*" THEN MatchStar(t, s, pos, cap, ic)
    ELSE MatchMore(MatchAtom(t, s, pos, cap, ic), 1, t, s, ic)

\* greedy repetition; an iteration that consumes nothing is not taken
MatchStar(t, s, pos, cap, ic) ==
    MatchMore(SelectSeq(MatchAtom(t, s, pos, cap, ic), LAMBDA r : r.end > pos), 1, t, s, ic)
        \o <<[end |-> pos, cap |-> cap]>>

MatchMore(rs, k, t, s, ic) ==
    IF k > Len(rs) THEN <<>>
    ELSE MatchStar(t, s, rs[k].end, rs[k].cap, ic) \o MatchMore(rs, k + 1, t, s, ic)

MatchAtom(t, s, pos, cap, ic) ==
    IF t.kind = "group" THEN
        LET rs == MatchTerms(t.body, 1, s, pos, cap, ic)
        IN  [k \in 1..Len(rs) |->
                [end |-> rs[k].end,
                 cap |-> IF t.idx = 1
                         THEN [set |-> TRUE, from |-> pos, to |-> rs[k].end]
                         ELSE rs[k].cap]]
    ELSE IF pos > Len(s) THEN <<>>
    ELSE IF \/ t.kind = "char" /\ CharEq(s[pos], t.ch, ic)
            \/ t.kind = "dot" /\ s[pos] \notin LineTerminators
            \/ t.kind = "digit" /\ IsDigit(s[pos])
            \/ t.kind = "word" /\ IsWordChar(s[pos])
         THEN <<[end |-> pos + 1, cap |-> cap]>>
         ELSE <<>>

\* String.prototype.match(regex) for a regex without the g flag: the leftmost
\* match.  m0 is match[0]; m1 is match[1], Null (undefined) when the regex has no first
\* group or the group took no part in the match.
RECURSIVE ExecFrom(_, _, _)
ExecFrom(regex, s, start) ==
    IF start > Len(s) + 1 THEN [matched |-> FALSE, m0 |-> <<>>, m1 |-> Null]
    ELSE
      LET rs == MatchTerms(regex.terms, 1, s, start, NoCapture, regex.ignoreCase)
      IN  IF rs = <<>> THEN ExecFrom(regex, s, start + 1)
          ELSE [matched |-> TRUE,
                m0 |-> SubSeq(s, start, rs[1].end - 1),
                m1 |-> IF rs[1].cap.set
                       THEN Some(SubSeq(s, rs[1].cap.from, rs[1].cap.to - 1))
                       ELSE Null]

Match(s, regex) == ExecFrom(regex, s, 1)

\* the number of capture groups of a compiled source
GroupCount(regex) == ParseTerms(regex.source, 1, 0).ng

-----------------------------------------------------------------------------
(* Objects used as string-keyed records *)

PROTO == <<"_", "_", "p", "r", "o", "t", "o", "_", "_">>
TEXT == <<"t", "e", "x", "t">>
LINE_NUMBER == <<"l", "i", "n", "e", "_", "n", "u", "m", "b", "e", "r">>
RAW_TEXT == <<"r", "a", "w", "_", "t", "e", "x", "t">>
DEFAULT_PATTERN == <<"(", ".", "+", ")">>
CSV_SUFFIX == <<".", "c", "s", "v">>

\* 2^32 - 1 in decimal: a canonical number below it is an array index
ARRAY_INDEX_LIMIT == <<"4", "2", "9", "4", "9", "6", "7", "2", "9", "5">>

DigitValue(c) == CHOOSE d \in 0..9 : Digits[d + 1] = c

\* a < b for canonical decimal strings
NumericLess(a, b) ==
    \/ Len(a) < Len(b)
    \/ /\ Len(a) = Len(b)
       /\ \E i \in 1..Len(a) :
            /\ DigitValue(a[i]) < DigitValue(b[i])
            /\ \A j \in 1..(i - 1) : a[j] = b[j]

\* an integer-like key: Object.keys lists these first, in ascending order
IsArrayIndex(k) ==
    /\ k # <<>>
    /\ \A i \in 1..Len(k) : IsDigit(k[i])
    /\ (Len(k) = 1 \/ k[1] # "0")
    /\ NumericLess(k, ARRAY_INDEX_LIMIT)

\* Object.keys(o)
ObjectKeys(o) == [i \in 1..Len(o) |-> o[i][1]]

HasOwn(o, k) == \E i \in 1..Len(o) : o[i][1] = k

\* o[k] of an own property
Get(o, k) == o[CHOOSE i \in 1..Len(o) : o[i][1] = k][2]

\* o[k] = v on a plain object: "__proto__" is the prototype accessor and
\* creates no own property; an existing key keeps its place; a new
\* integer-like key goes among the integer-like keys, any other key last
ObjSet(o, k, v) ==
    IF k = PROTO THEN o
    ELSE IF HasOwn(o, k)
    THEN [i \in 1..Len(o) |-> IF o[i][1] = k THEN <<k, v>> ELSE o[i]]
    ELSE IF IsArrayIndex(k)
    THEN LET n == Cardinality({i \in 1..Len(o) :
                        /\ IsArrayIndex(o[i][1])
                        /\ NumericLess(o[i][1], k)})
         IN  SubSeq(o, 1, n) \o <<<<k, v>>>> \o SubSeq(o, n + 1, Len(o))
    ELSE Append(o, <<k, v>>)

\* JavaScript truthiness of a string that may be undefined
Truthy(opt) == opt # Null /\ opt[1] # <<>>

-----------------------------------------------------------------------------
(* parsePatterns *)

\* const [fieldName, pattern] = line.split(":").map((s) => s.trim())
Destructure(line) ==
    LET pieces == Split(line, ":")
    IN  [fieldName |-> Trim(pieces[1]),
         pattern |-> IF Len(pieces) >= 2 THEN Some(Trim(pieces[2])) ELSE Null]

\* the [fieldName, pattern] pairs of the lines the forEach visits
ParsedLines(str) ==
    LET lines == NonBlankLines(str)
    IN  [i \in 1..Len(lines) |-> Destructure(lines[i])]

\* the body of the forEach callback
AddPattern(patterns, p) ==
    IF p.fieldName # <<>> /\ Truthy(p.pattern)
    THEN IF Compiles(p.pattern[1])
         THEN ObjSet(patterns, p.fieldName, RegExpOf(p.pattern[1], TRUE))
         ELSE patterns      \* console.warn
    ELSE patterns

RECURSIVE AddPatterns(_, _, _)
AddPatterns(patterns, ps, i) ==
    IF i > Len(ps) THEN patterns
    ELSE AddPatterns(AddPattern(patterns, ps[i]), ps, i + 1)

\* the object of an earlier call used again
NewPatterns_shared == patternMap

\* const patterns: Record<string, RegExp> = {}
NewPatterns == <<>>

DefaultRegExp == RegExpOf(DEFAULT_PATTERN, FALSE)

\* parsePatterns installing the default entry whatever it parsed
parsePatterns_always_default(str) ==
    ObjSet(AddPatterns(NewPatterns, ParsedLines(str), 1), TEXT, DefaultRegExp)

parsePatterns(str) ==
    LET patterns == AddPatterns(NewPatterns, ParsedLines(str), 1)
    IN  IF Len(ObjectKeys(patterns)) = 0
        THEN ObjSet(patterns, TEXT, DefaultRegExp)
        ELSE patterns

-----------------------------------------------------------------------------
(* extractDataFromText and extractDataFromCsv: the FileReader onload handlers *)

\* row[key] = match[1] || match[0]
MatchValue(m) == IF Truthy(m.m1) THEN m.m1[1] ELSE m.m0

\* the forEach visiting the entries from the last to the first
RECURSIVE ApplyPatterns_reversed(_, _, _, _)
ApplyPatterns_reversed(map, line, k, acc) ==
    IF k > Len(map) THEN acc
    ELSE LET entry == map[Len(map) + 1 - k]
             m == Match(line, entry[2])
         IN  ApplyPatterns_reversed(map, line, k + 1,
                IF m.matched
                THEN [row |-> ObjSet(acc.row, entry[1], MatchValue(m)), foundData |-> TRUE]
                ELSE acc)

\* Object.entries(patternMap).forEach(...) from entry k on: the row and
\* foundData after it
RECURSIVE ApplyPatterns(_, _, _, _)
ApplyPatterns(map, line, k, acc) ==
    IF k > Len(map) THEN acc
    ELSE LET m == Match(line, map[k][2])
         IN  ApplyPatterns(map, line, k + 1,
                IF m.matched
                THEN [row |-> ObjSet(acc.row, map[k][1], MatchValue(m)), foundData |-> TRUE]
                ELSE acc)

RECURSIVE ExtractRows_every_line(_, _, _)
RECURSIVE ExtractRows_metadata_first(_, _, _)

\* the forEach pushing a row for every line, matched or not
ExtractRows_every_line(lines, map, i) ==
    IF i > Len(lines) THEN <<>>
    ELSE LET r == ApplyPatterns(map, lines[i], 1, [row |-> <<>>, foundData |-> FALSE])
             row == ObjSet(ObjSet(r.row, LINE_NUMBER, NumberToString(i)), RAW_TEXT, lines[i])
         IN  <<row>> \o ExtractRows_every_line(lines, map, i + 1)

\* the forEach writing line_number and raw_text before the pattern fields
ExtractRows_metadata_first(lines, map, i) ==
    IF i > Len(lines) THEN <<>>
    ELSE LET meta == ObjSet(ObjSet(<<>>, LINE_NUMBER, NumberToString(i)), RAW_TEXT, lines[i])
             r == ApplyPatterns(map, lines[i], 1, [row |-> meta, foundData |-> FALSE])
         IN  (IF r.foundData THEN <<r.row>> ELSE <<>>)
                \o ExtractRows_metadata_first(lines, map, i + 1)

\* lines.forEach((line, index) => ...) from line i on
RECURSIVE ExtractRows(_, _, _)
ExtractRows(lines, map, i) ==
    IF i > Len(lines) THEN <<>>
    ELSE LET r == ApplyPatterns(map, lines[i], 1, [row |-> <<>>, foundData |-> FALSE])
             row == ObjSet(ObjSet(r.row, LINE_NUMBER, NumberToString(i)), RAW_TEXT, lines[i])
         IN  (IF r.foundData THEN <<row>> ELSE <<>>) \o ExtractRows(lines, map, i + 1)

Resolved(data) == [status |-> "resolved", data |-> data, isError |-> FALSE, message |-> ""]
Rejected(isError, message) ==
    [status |-> "rejected", data |-> <<>>, isError |-> isError, message |-> message]

\* the onload handler without its check for an empty file
TextOutcome_no_empty_check(text, patterns) ==
    Resolved(ExtractRows(NonBlankLines(text), parsePatterns(patterns), 1))

\* reader.onload of extractDataFromText: how the promise settles
TextOutcome(text, patterns) ==
    LET lines == NonBlankLines(text)
    IN  IF Len(lines) = 0 THEN Rejected(TRUE, "Empty file")
        ELSE Resolved(ExtractRows(lines, parsePatterns(patterns), 1))

\* .split(",").map((v) => v.trim().replace(/"/g, ""))
CsvFields(line) ==
    LET pieces == Split(line, ",")
    IN  [i \in 1..Len(pieces) |-> StripQuotes(Trim(pieces[i]))]

\* the forEach keeping the first value of a repeated header
RECURSIVE CsvRow_first_wins(_, _, _, _)
CsvRow_first_wins(headers, values, i, row) ==
    IF i > Len(headers) THEN row
    ELSE CsvRow_first_wins(headers, values, i + 1,
            IF HasOwn(row, headers[i]) THEN row
            ELSE ObjSet(row, headers[i], IF i <= Len(values) THEN values[i] ELSE <<>>))

\* headers.forEach((header, index) => { row[header] = values[index] || "" })
RECURSIVE CsvRow(_, _, _, _)
CsvRow(headers, values, i, row) ==
    IF i > Len(headers) THEN row
    ELSE CsvRow(headers, values, i + 1,
            ObjSet(row, headers[i], IF i <= Len(values) THEN values[i] ELSE <<>>))

\* reader.onload of extractDataFromCsv
CsvOutcome(text) ==
    LET lines == NonBlankLines(text)
        headers == CsvFields(lines[1])
    IN  IF Len(lines) = 0 THEN Rejected(TRUE, "Empty CSV file")
        ELSE Resolved([i \in 1..(Len(lines) - 1) |->
                        CsvRow(headers, CsvFields(lines[i + 1]), 1, <<>>)])

\* reader.onerror = reject: the promise is rejected with the error event
ReadFailure == Rejected(FALSE, "")

-----------------------------------------------------------------------------
(* Inputs *)

MaxSpecLines == 2   \* lines of a specification text given to parsePatterns
MaxLines == 2       \* lines of an input text
MaxPatterns == 2    \* lines of a specification text given to an extractor
MaxCalls == 3       \* extractor calls compared with a remembered call

RECURSIVE Join(_, _)
Join(lines, sep) ==
    IF Len(lines) = 0 THEN <<>>
    ELSE IF Len(lines) = 1 THEN lines[1]
    ELSE lines[1] \o <<sep>> \o Join(Tail(lines), sep)

\* the texts of at most max lines, each line one of the samples
TextsOf(samples, max) ==
    {Join(ls, LF) : ls \in UNION {[1..n -> samples] : n \in 0..max}}

\* specification lines: well-formed, with a colon inside the regex, with a
\* regex that does not compile, without a colon, with an empty name or an
\* empty pattern, blank, and with names that repeat or are special
PatternLines ==
    { <<"n", ":", " ", "a", "(", "b", "*", ")">>,
      <<"t", ":", " ", "a", ":", "b">>,
      <<"b", ":", "(">>,
      <<"n", "o", "c", "o", "l", "o", "n">>,
      <<":", " ", "a">>,
      <<"x", ":", " ">>,
      <<"c", ":", " ", ":", "b">>,
      <<"g", ":", " ", "(", ":", ")">>,
      <<"t", "e", "x", "t", ":", " ", "b">>,
      <<"n", ":", " ", "b">>,
      <<"n", ":", " ", "b", ":", "a">>,
      <<"_", "_", "p", "r", "o", "t", "o", "_", "_", ":", " ", "a">>,
      <<" ">> }

PatternStrings == TextsOf(PatternLines, MaxSpecLines)

\* input lines: matching, not matching, padded, ending in a carriage
\* return, blank
TextLines ==
    { <<"a", "b">>,
      <<"a">>,
      <<" ", "c", CR>>,
      <<" ">> }

Texts == TextsOf(TextLines, MaxLines)

\* specification lines for the extractor: with a group that can capture
\* nothing, with the reserved names, with a group that can be skipped, with
\* a pattern that matches the empty string, with an integer-like name, not
\* compiling, without a colon
ExtractPatternLines ==
    { <<"n", ":", " ", "a", "(", "b", "*", ")">>,
      <<"l", "i", "n", "e", "_", "n", "u", "m", "b", "e", "r", ":", " ", "a">>,
      <<"r", "a", "w", "_", "t", "e", "x", "t", ":", " ", "(", "C", ")">>,
      <<"g", ":", " ", "(", "b", ")", "*", "a">>,
      <<"e", ":", " ", "x", "*">>,
      <<"1", ":", " ", "b">>,
      <<"0", ":", " ", "a">>,
      <<"b", "a", "d", ":", " ", "(">>,
      <<"n", "o", "c", "o", "l", "o", "n">> }

ExtractPatterns == TextsOf(ExtractPatternLines, MaxPatterns)

\* lines of delimited text: headers, with a repeated name, quoted and padded
\* values, short and long rows, blank
CsvLines ==
    { <<"a", ",", "b">>,
      <<"a", ",", "a">>,
      <<"_", "_", "p", "r", "o", "t", "o", "_", "_", ",", "b">>,
      <<"1", ",", "2">>,
      <<"3">>,
      <<" ", QUOTE, "x", QUOTE, " ", ",", "y", ",", "z">>,
      <<" ">> }

CsvTexts == TextsOf(CsvLines, MaxLines)

\* useState("Extract item, quantity, and price for each line item.")
DEFAULT_PROMPT ==
    <<"E", "x", "t", "r", "a", "c", "t", " ", "i", "t", "e", "m", ",", " ",
      "q", "u", "a", "n", "t", "i", "t", "y", ",", " ", "a", "n", "d", " ",
      "p", "r", "i", "c", "e", " ", "f", "o", "r", " ", "e", "a", "c", "h",
      " ", "l", "i", "n", "e", " ", "i", "t", "e", "m", ".">>

\* 20 * 1024 * 1024
MAX_FILE_SIZE == 20 * 1024 * 1024

FileOf(name, text) == [name |-> name, size |-> Len(text), text |-> text]

\* the files the user can choose: text and delimited-text files, one above
\* the size limit
AppFiles ==
    {FileOf(<<"d", ".", "t", "x", "t">>, t) : t \in { <<>>,
          <<"a", "b", LF, " ", "c", CR>>,
          <<"c">> }}
    \cup {FileOf(<<"d", ".", "C", "S", "V">>, t) : t \in { <<>>,
          <<"a", ",", "b">>,
          <<"a", ",", "b", LF, "1", ",", "2">> }}
    \cup {[name |-> <<"b", "i", "g", ".", "t", "x", "t">>, size |-> MAX_FILE_SIZE + 1, text |-> <<>>]}

\* the texts the user can type as extraction instructions
AppPrompts ==
    { DEFAULT_PROMPT,
      <<>>,
      <<"n", ":", " ", "a", "(", "b", "*", ")">>,
      <<"n", ":", " ", "a", "(", "b", "*", ")", LF, "m", ":", " ", "c">>,
      <<"b", "a", "d", ":", " ", "(">> }

\* what new Date().toLocaleString() may return
LocaleDates ==
    { <<"1", "1", "/", "6", "/", "2", "0", "2", "6", ",", " ", "9", ":", "0", "5", ":", "0", "0", " ", "A", "M">>,
      <<"6", ".", "1", "1", ".", "2", "0", "2", "6", ",", " ", "0", "9", ":", "0", "5", ":", "0", "0">> }

\* the calls compared for repeatability
RepeatTexts ==
    { <<"a", "b", LF, "a">>,
      <<"c">>,
      <<>> }

RepeatPatterns ==
    { <<"n", ":", " ", "a", "(", "b", "*", ")">>,
      <<"m", ":", " ", "B", LF, "n", ":", " ", "a">>,
      <<>> }

RepeatCsvTexts ==
    { <<"a", ",", "b", LF, "1", ",", "2">>,
      <<>> }

-----------------------------------------------------------------------------
(* fileExporter: exportToCsv, exportToWord and createRTFContent *)

\* row[header]: undefined when the row has no such property (the names
\* used here are none of Object.prototype's)
Lookup(row, header) == IF HasOwn(row, header) THEN Some(Get(row, header)) ELSE Null

UNDEFINED ==
    <<"u", "n", "d", "e", "f", "i", "n", "e", "d">>

\* "" + value
Concat(value) == IF value = Null THEN UNDEFINED ELSE value[1]

\* String(value ?? "")
StringOrEmpty(value) == IF value = Null THEN <<>> ELSE value[1]

\* String(value || "")
StringIfTruthy(value) == IF Truthy(value) THEN value[1] ELSE <<>>

\* text.replace(/"/g, '""')
RECURSIVE EscapeQuotes(_)
EscapeQuotes(text) ==
    IF text = <<>> THEN <<>>
    ELSE (IF Head(text) = QUOTE THEN <<QUOTE, QUOTE>> ELSE <<Head(text)>>)
            \o EscapeQuotes(Tail(text))

\* pieces.join("")
RECURSIVE Flatten(_)
Flatten(pieces) == IF pieces = <<>> THEN <<>> ELSE Head(pieces) \o Flatten(Tail(pieces))

\* row[header] of every row under every header
Values(data, headers) ==
    [r \in 1..Len(data) |-> [h \in 1..Len(headers) |-> Lookup(data[r], headers[h])]]

EXPORT_NAME ==
    <<"e", "x", "t", "r", "a", "c", "t", "e", "d", "_", "d", "a", "t", "a">>
CSV_EXTENSION ==
    <<".", "c", "s", "v">>
RTF_EXTENSION ==
    <<".", "r", "t", "f">>

\* `"${escaped}"`
Quoted(text) == <<QUOTE>> \o EscapeQuotes(text) \o <<QUOTE>>

\* csvRows.join("\n") of the header line and of the quoted cells of each row
CsvString(headers, cells) ==
    Join(<<Join(headers, ",")>>
            \o [r \in 1..Len(cells) |->
                    Join([h \in 1..Len(headers) |-> Quoted(cells[r][h])], ",")],
         LF)

\* the cells exportToCsv writes: "" + row[header]
CsvCells(data, headers) ==
    LET values == Values(data, headers)
    IN  [r \in 1..Len(data) |-> [h \in 1..Len(headers) |-> Concat(values[r][h])]]

\* exportToCsv(data, filename): the file handed to download, if any
exportToCsv(data, filename) ==
    IF Len(data) = 0 THEN Null
    ELSE Some([filename |-> filename \o CSV_EXTENSION,
               content |-> LET headers == ObjectKeys(data[1])
                           IN  CsvString(headers, CsvCells(data, headers))])

RTF_HEAD ==
    <<"{", BACKSLASH, "r", "t", "f", "1", BACKSLASH, "a", "n", "s", "i",
      BACKSLASH, "d", "e", "f", "f", "0", " ", "{", BACKSLASH, "f", "o",
      "n", "t", "t", "b", "l", " ", "{", BACKSLASH, "f", "0", " ", "T",
      "i", "m", "e", "s", " ", "N", "e", "w", " ", "R", "o", "m", "a", "n",
      ";", "}", "}", BACKSLASH, "f", "0", BACKSLASH, "f", "s", "2", "4",
      BACKSLASH, "b", " ", "E", "x", "t", "r", "a", "c", "t", "e", "d",
      " ", "D", "a", "t", "a", " ", "R", "e", "p", "o", "r", "t",
      BACKSLASH, "b", "0", BACKSLASH, "p", "a", "r">>
RTF_GENERATED ==
    <<"G", "e", "n", "e", "r", "a", "t", "e", "d", " ", "o", "n", ":", " ">>
RTF_TOTAL ==
    <<"T", "o", "t", "a", "l", " ", "R", "e", "c", "o", "r", "d", "s", ":",
      " ">>
RTF_DATA ==
    <<BACKSLASH, "b", " ", "D", "a", "t", "a", ":", BACKSLASH, "b", "0",
      BACKSLASH, "p", "a", "r", BACKSLASH, "p", "a", "r">>
RTF_RECORD ==
    <<"R", "e", "c", "o", "r", "d", " ">>
PAR ==
    <<BACKSLASH, "p", "a", "r">>

\* the text of one record: its number, then a line per header
RtfRecord(index, headers, values) ==
    RTF_RECORD \o NumberToString(index) \o <<":">> \o PAR
    \o Flatten([h \in 1..Len(headers) |->
                    <<" ", " ">> \o headers[h] \o <<":", " ">> \o values[h] \o PAR])
    \o PAR

\* the document of the records with the given cells
RtfDocument(headers, cells, now) ==
    RTF_HEAD
    \o RTF_GENERATED \o now \o PAR
    \o RTF_TOTAL \o NumberToString(Len(cells)) \o PAR \o PAR
    \o RTF_DATA
    \o Flatten([r \in 1..Len(cells) |-> RtfRecord(r, headers, cells[r])])
    \o <<"}">>

\* the cells createRTFContent writes: String(row[header] || "")
RtfCells(data, headers) ==
    LET values == Values(data, headers)
    IN  [r \in 1..Len(data) |-> [h \in 1..Len(headers) |-> StringIfTruthy(values[r][h])]]

\* createRTFContent(data, headers), now being new Date().toLocaleString()
createRTFContent(data, headers, now) == RtfDocument(headers, RtfCells(data, headers), now)

\* exportToWord(data, filename): the file handed to download, if any (the
\* HTML document it also builds is handed to nobody)
exportToWord(data, filename, now) ==
    IF Len(data) = 0 THEN Null
    ELSE Some([filename |-> filename \o RTF_EXTENSION,
               content |-> createRTFContent(data, ObjectKeys(data[1]), now)])

-----------------------------------------------------------------------------
(* State *)

NoOutcome == [status |-> "none", data |-> <<>>, isError |-> FALSE, message |-> ""]

NoCall == [kind |-> "none", text |-> <<>>, patterns |-> <<>>, outcome |-> NoOutcome]

\* the state with the call c in flight and nothing else done
Start(c) ==
    /\ patternString = <<>>
    /\ parsed = <<>>
    /\ patternMap = <<>>
    /\ call = NoCall
    /\ ref = NoCall
    /\ since = 0
    /\ file = Null
    /\ prompt = DEFAULT_PROMPT
    /\ extractedData = Null
    /\ error = Null
    /\ isLoading = FALSE
    /\ pending = c
    /\ download = Null

\* the App as constructed
Init == Start(Null)

appVars == <<file, prompt, extractedData, error, isLoading, pending, download>>
parseVars == <<patternString, parsed, patternMap>>

\* what a call of parsePatterns(str) leaves behind
Parsing(str) ==
    /\ patternString' = str
    /\ parsed' = ParsedLines(str)
    /\ patternMap' = parsePatterns(str)

-----------------------------------------------------------------------------
(* The services *)

\* the call in flight: parsePatterns(patterns), extractDataFromText(file,
\* patterns) or extractDataFromCsv(file), text being what the file holds
Call(kind, text, patterns) == [kind |-> kind, text |-> text, patterns |-> patterns]

\* a call of parsePatterns
ParsePatterns ==
    /\ pending # Null /\ pending[1].kind = "parse"
    /\ Parsing(pending[1].patterns)
    /\ pending' = Null
    /\ UNCHANGED <<call, ref, since, file, prompt, extractedData, error, isLoading, download>>

\* extractDataFromText(file, patterns), the file read as text: reader.onload
TextLoaded(text, patterns) ==
    /\ call' = [kind |-> "text", text |-> text, patterns |-> patterns,
                outcome |-> TextOutcome(text, patterns)]
    /\ IF Len(NonBlankLines(text)) = 0
       THEN UNCHANGED parseVars
       ELSE Parsing(patterns)

\* extractDataFromCsv(file), the file read as text: reader.onload
CsvLoaded(text) ==
    /\ call' = [kind |-> "csv", text |-> text, patterns |-> <<>>,
                outcome |-> CsvOutcome(text)]
    /\ UNCHANGED parseVars

\* either extractor, the read failing: reader.onerror
ReadFailed(kind, text, patterns) ==
    /\ call' = [kind |-> kind, text |-> text, patterns |-> patterns,
                outcome |-> ReadFailure]
    /\ UNCHANGED parseVars

serviceVars == <<ref, since, file, prompt, extractedData, error, isLoading, download>>

ExtractText ==
    /\ pending # Null /\ pending[1].kind = "text"
    /\ TextLoaded(pending[1].text, pending[1].patterns)
    /\ pending' = Null
    /\ UNCHANGED serviceVars

ExtractCsv ==
    /\ pending # Null /\ pending[1].kind = "csv"
    /\ CsvLoaded(pending[1].text)
    /\ pending' = Null
    /\ UNCHANGED serviceVars

ExtractFails ==
    /\ pending # Null /\ pending[1].kind \in {"text", "csv"}
    /\ ReadFailed(pending[1].kind, pending[1].text, pending[1].patterns)
    /\ pending' = Null
    /\ UNCHANGED serviceVars

-----------------------------------------------------------------------------
(* App *)

MSG_TOO_LARGE == "File size exceeds 20MB. Please choose a smaller file."
MSG_NO_INPUT == "Please select a file and provide extraction instructions."
MSG_NO_DATA == "No data could be extracted. Please check your file format or try different patterns."
MSG_UNKNOWN == "An unknown error occurred during extraction."

\* {!extractedData && !isLoading && (...)}: the upload form is rendered
FormShown == extractedData = Null /\ ~isLoading

\* the "Try Again" and "Start Over" buttons are rendered
ResetShown == (error # Null \/ extractedData # Null) /\ ~isLoading

\* file.name.toLowerCase().endsWith(".csv")
IsCsv(f) == EndsWith(ToLowerCase(f.name), CSV_SUFFIX)

HandleFileChange ==
    \E f \in AppFiles :
        /\ FormShown
        /\ IF f.size > MAX_FILE_SIZE
           THEN /\ error' = Some(MSG_TOO_LARGE)
                /\ UNCHANGED <<file, extractedData>>
           ELSE /\ file' = Some(f)
                /\ error' = Null
                /\ extractedData' = Null
        /\ UNCHANGED <<prompt, isLoading, pending, download, call, ref, since, parseVars>>

\* onChange={(e) => setPrompt(e.target.value)}
SetPrompt ==
    \E p \in AppPrompts :
        /\ FormShown
        /\ prompt' = p
        /\ UNCHANGED <<file, extractedData, error, isLoading, pending, download, call, ref, since,
                       parseVars>>

\* handleExtract up to its await; the button is disabled={!file || !prompt}
HandleExtract ==
    /\ FormShown
    /\ file # Null /\ prompt # <<>>
    /\ IF file = Null \/ prompt = <<>>
       THEN /\ error' = Some(MSG_NO_INPUT)
            /\ UNCHANGED <<isLoading, extractedData, pending>>
       ELSE /\ isLoading' = TRUE
            /\ error' = Null
            /\ extractedData' = Null
            /\ pending' = IF IsCsv(file[1])
                          THEN Some(Call("csv", file[1].text, <<>>))
                          ELSE Some(Call("text", file[1].text, prompt))
    /\ UNCHANGED <<file, prompt, download, call, ref, since, parseVars>>

\* the continuation showing an empty result as data
Continue_shows_empty ==
    /\ IF call'.outcome.status = "resolved"
       THEN /\ extractedData' = Some(call'.outcome.data)
            /\ UNCHANGED error
       ELSE /\ error' = Some(IF call'.outcome.isError
                             THEN call'.outcome.message
                             ELSE MSG_UNKNOWN)
            /\ UNCHANGED extractedData
    /\ isLoading' = FALSE
    /\ pending' = Null
    /\ UNCHANGED <<file, prompt, download, ref, since>>

\* handleExtract after its await, the promise settled as call' records
Continue ==
    /\ IF call'.outcome.status = "resolved"
       THEN IF Len(call'.outcome.data) = 0
            THEN /\ error' = Some(MSG_NO_DATA)
                 /\ UNCHANGED extractedData
            ELSE /\ extractedData' = Some(call'.outcome.data)
                 /\ UNCHANGED error
       ELSE /\ error' = Some(IF call'.outcome.isError
                             THEN call'.outcome.message
                             ELSE MSG_UNKNOWN)
            /\ UNCHANGED extractedData
    /\ isLoading' = FALSE
    /\ pending' = Null
    /\ UNCHANGED <<file, prompt, download, ref, since>>

\* the awaited extractor reads the file and settles
ExtractSettled ==
    /\ pending # Null
    /\ IF pending[1].kind = "csv"
       THEN CsvLoaded(pending[1].text)
       ELSE TextLoaded(pending[1].text, pending[1].patterns)
    /\ Continue

\* the awaited extractor fails to read the file
ExtractRejected ==
    /\ pending # Null
    /\ ReadFailed(pending[1].kind, pending[1].text, pending[1].patterns)
    /\ Continue

\* {extractedData && !isLoading && (...)}: the result table and the export
\* buttons are rendered
DataShown == extractedData # Null /\ ~isLoading

\* const tableHeaders = useMemo(...)
tableHeaders ==
    IF extractedData = Null \/ Len(extractedData[1]) = 0 THEN <<>>
    ELSE ObjectKeys(extractedData[1][1])

\* <tbody>: the text of each cell, {String(row[header] ?? "")}
TableBody ==
    LET values == Values(extractedData[1], tableHeaders)
    IN  [r \in 1..Len(extractedData[1]) |->
            [h \in 1..Len(tableHeaders) |-> StringOrEmpty(values[r][h])]]

exportVars == <<file, prompt, extractedData, error, isLoading, pending,
                call, ref, since, parseVars>>

\* onClick={() => exportToCsv(extractedData, "extracted_data")}
ExportCsv ==
    /\ DataShown
    /\ LET made == exportToCsv(extractedData[1], EXPORT_NAME)
       IN  download' = IF made = Null THEN download ELSE made
    /\ UNCHANGED exportVars

\* onClick={() => exportToWord(extractedData, "extracted_data")}
ExportWord ==
    \E now \in LocaleDates :
        /\ DataShown
        /\ LET made == exportToWord(extractedData[1], EXPORT_NAME, now)
           IN  download' = IF made = Null THEN download ELSE made
        /\ UNCHANGED exportVars

HandleReset ==
    /\ ResetShown
    /\ file' = Null
    /\ prompt' = DEFAULT_PROMPT
    /\ extractedData' = Null
    /\ error' = Null
    /\ isLoading' = FALSE
    /\ UNCHANGED <<pending, download, call, ref, since, parseVars>>

-----------------------------------------------------------------------------
(* Specifications *)

\* the App and the extractors it calls
Next ==
    \/ HandleFileChange
    \/ SetPrompt
    \/ HandleExtract
    \/ ExtractSettled
    \/ ExtractRejected
    \/ ExportCsv
    \/ ExportWord
    \/ HandleReset

Spec == Init /\ [][Next]_vars

\* parsePatterns on its own, on each specification text
InitParse == \E str \in PatternStrings : Start(Some(Call("parse", <<>>, str)))

NextParse == ParsePatterns

SpecParse == InitParse /\ [][NextParse]_vars

\* the extractors on their own, on each input
InitExtract ==
    \/ \E text \in Texts, patterns \in ExtractPatterns :
            Start(Some(Call("text", text, patterns)))
    \/ \E text \in CsvTexts : Start(Some(Call("csv", text, <<>>)))

NextExtract == ExtractText \/ ExtractCsv \/ ExtractFails

SpecExtract == InitExtract /\ [][NextExtract]_vars

\* the extractors called again and again, an earlier call remembered
RepeatText ==
    \E text \in RepeatTexts, patterns \in RepeatPatterns :
        /\ since < MaxCalls
        /\ TextLoaded(text, patterns)
        /\ since' = since + 1
        /\ UNCHANGED <<ref, appVars>>

RepeatCsv ==
    \E text \in RepeatCsvTexts :
        /\ since < MaxCalls
        /\ CsvLoaded(text)
        /\ since' = since + 1
        /\ UNCHANGED <<ref, appVars>>

RepeatFails ==
    \E text \in RepeatTexts, patterns \in RepeatPatterns :
        /\ since < MaxCalls
        /\ ReadFailed("text", text, patterns)
        /\ since' = since + 1
        /\ UNCHANGED <<ref, appVars>>

Remember ==
    /\ call.kind # "none"
    /\ ref' = call
    /\ since' = 0
    /\ UNCHANGED <<call, parseVars, appVars>>

NextRepeat == RepeatText \/ RepeatCsv \/ RepeatFails \/ Remember

SpecRepeat == Init /\ [][NextRepeat]_vars

-----------------------------------------------------------------------------
(* Properties of parsePatterns *)

\* parsePatterns has returned (the object it returns is never empty)
ParseDone == patternMap # <<>>

\* the position of the first ":" of a line, 0 when it has none
FirstColon(line) ==
    IF \E i \in 1..Len(line) : line[i] = ":"
    THEN CHOOSE i \in 1..Len(line) : line[i] = ":" /\ \A j \in 1..(i - 1) : line[j] # ":"
    ELSE 0

\* the name and the regex source of a "name: regex" line, split at its first colon
NameOf(line) == Trim(SubSeq(line, 1, FirstColon(line) - 1))
SourceOf(line) == Trim(SubSeq(line, FirstColon(line) + 1, Len(line)))

WellFormed(line) ==
    FirstColon(line) > 0 /\ NameOf(line) # <<>> /\ SourceOf(line) # <<>>

KeySet(o) == {o[i][1] : i \in 1..Len(o)}

HasDefaultEntry(o) == HasOwn(o, TEXT) /\ Get(o, TEXT) = DefaultRegExp

\* the pairs the forEach callback stores: both parts non-empty, the pattern
\* compiles, and the name is not the prototype accessor
Stored(p) ==
    /\ p.fieldName # <<>> /\ Truthy(p.pattern)
    /\ Compiles(p.pattern[1])
    /\ p.fieldName # PROTO

C2_AsClaimed ==
    LET lines == NonBlankLines(patternString)
    IN  ParseDone =>
            /\ Len(parsed) = Len(lines)
            /\ \A i \in 1..Len(lines) :
                 /\ FirstColon(lines[i]) > 0 =>
                      /\ parsed[i].fieldName = NameOf(lines[i])
                      /\ parsed[i].pattern = Some(SourceOf(lines[i]))
                 /\ (parsed[i].fieldName # <<>> /\ Truthy(parsed[i].pattern))
                      <=> WellFormed(lines[i])

-----------------------------------------------------------------------------
(* Properties of the extractors *)

\* the latest call was extractDataFromText / extractDataFromCsv, the file
\* was read, and the promise resolved
TextResolved == call.kind = "text" /\ call.outcome.status = "resolved"
CsvResolved == call.kind = "csv" /\ call.outcome.status = "resolved"

\* the promise was rejected by reader.onerror
ReadError(c) == c.outcome.status = "rejected" /\ ~c.outcome.isError

\* every character of the text is white space: it has no non-blank line
NoContent(text) == \A i \in 1..Len(text) : text[i] \in WhiteSpace

\* the non-blank line a row was made from, by its line_number
LineIndex(row, n) == CHOOSE i \in 1..n : NumberToString(i) = Get(row, LINE_NUMBER)

\* some compiled pattern matches the line
Hit(line) == \E k \in 1..Len(patternMap) : Match(line, patternMap[k][2]).matched

\* C3 as claimed: for a specification text that is empty or has only
\* malformed lines the map is the single entry "text", and every non-blank
\* input line yields a row whose "text" value is the whole line.
C3_AsClaimed ==
    LET lines == NonBlankLines(call.text)
        specLines == NonBlankLines(call.patterns)
        data == call.outcome.data
    IN  (TextResolved /\ \A j \in 1..Len(specLines) : ~WellFormed(specLines[j])) =>
            /\ patternMap = <<<<TEXT, DefaultRegExp>>>>
            /\ Len(data) = Len(lines)
            /\ \A i \in 1..Len(data) :
                 HasOwn(data[i], TEXT) /\ Get(data[i], TEXT) = lines[i]

\* C4 as claimed: the value recorded for a matching pattern is what its first
\* capture group captured when the regex has one, the empty string included,
\* and the whole match when it has none.
C4_AsClaimed ==
    LET lines == NonBlankLines(call.text)
        data == call.outcome.data
    IN  TextResolved =>
            \A r \in 1..Len(data) : \A k \in 1..Len(patternMap) :
                LET key == patternMap[k][1]
                    regex == patternMap[k][2]
                    m == Match(lines[LineIndex(data[r], Len(lines))], regex)
                IN  (m.matched /\ key \notin {LINE_NUMBER, RAW_TEXT}) =>
                        Get(data[r], key) =
                            IF GroupCount(regex) >= 1 /\ m.m1 # Null
                            THEN m.m1[1]
                            ELSE m.m0

\* C5: the result has one row for each non-blank line that some compiled
\* pattern matches and none for any other line, in the order of the lines;
\* so it has no more rows than there are non-blank lines.
C5_RowsAreMatchedLines ==
    LET lines == NonBlankLines(call.text)
        data == call.outcome.data
        hits == {i \in 1..Len(lines) : Hit(lines[i])}
    IN  TextResolved =>
            /\ Len(data) = Cardinality(hits)
            /\ Len(data) <= Len(lines)
            /\ \A r \in 1..Len(data) :
                 LET i == CHOOSE h \in hits : Cardinality({j \in hits : j < h}) = r - 1
                 IN  /\ Get(data[r], RAW_TEXT) = lines[i]
                     /\ Get(data[r], LINE_NUMBER) = NumberToString(i)

\* C5 witness: a result with a row for one line and none for another
\* non-blank line
C5_Witness ==
    /\ TextResolved
    /\ Len(call.outcome.data) >= 1
    /\ Len(call.outcome.data) < Len(NonBlankLines(call.text))

\* C6: every row has "line_number", the decimal 1-based index of its line
\* among the non-blank lines, and "raw_text", that line untrimmed, also when
\* a pattern is named "line_number" or "raw_text".
C6_RowMetadata ==
    LET lines == NonBlankLines(call.text)
        data == call.outcome.data
    IN  TextResolved =>
            \A r \in 1..Len(data) :
                /\ HasOwn(data[r], LINE_NUMBER) /\ HasOwn(data[r], RAW_TEXT)
                /\ \E i \in 1..Len(lines) :
                     /\ Get(data[r], LINE_NUMBER) = NumberToString(i)
                     /\ Get(data[r], RAW_TEXT) = lines[i]
                     /\ Hit(lines[i])
                     /\ Cardinality({j \in 1..(i - 1) : Hit(lines[j])}) = r - 1

\* C6 witness: a row of a line that follows a blank line and is not trimmed,
\* matched by a pattern named "line_number" or "raw_text"
C6_Witness ==
    LET lines == NonBlankLines(call.text)
        data == call.outcome.data
    IN  /\ TextResolved
        /\ Len(Split(call.text, LF)) > Len(lines)
        /\ \E r \in 1..Len(data) : \E k \in 1..Len(patternMap) :
             /\ patternMap[k][1] \in {LINE_NUMBER, RAW_TEXT}
             /\ Match(Get(data[r], RAW_TEXT), patternMap[k][2]).matched
             /\ Trim(Get(data[r], RAW_TEXT)) # Get(data[r], RAW_TEXT)

\* C7: with no non-blank line in the input both extractors reject with
\* their empty-file error, and an extractor that resolves had a non-blank
\* line.
C7_EmptyInputRejects ==
    (call.kind \in {"text", "csv"} /\ ~ReadError(call)) =>
        /\ NoContent(call.text) =>
             /\ call.outcome.status = "rejected"
             /\ call.outcome.isError
             /\ call.outcome.message =
                  (IF call.kind = "text" THEN "Empty file" ELSE "Empty CSV file")
        /\ call.outcome.status = "resolved" => ~NoContent(call.text)

\* C7 witness: extractDataFromText rejecting a text of blank lines
C7_Witness ==
    /\ call.kind = "text"
    /\ call.outcome.status = "rejected" /\ call.outcome.isError
    /\ Len(call.text) > 1

\* the trimmed, quote-stripped i-th comma-separated value of a line, "" when
\* the line has none
ValueAt(line, i) ==
    LET pieces == Split(line, ",")
    IN  IF i <= Len(pieces) THEN StripQuotes(Trim(pieces[i])) ELSE <<>>

-----------------------------------------------------------------------------
(* Properties of the App and of repeated calls *)

\* C9: extractDataFromText, given a non-blank line and no line that any
\* pattern matches, resolves with an empty result; and when handleExtract
\* resumes with an empty result, the App has an error message, no
\* extractedData and isLoading false.
C9_EmptyResultIsAppError ==
    [][(pending # Null /\ pending' = Null) =>
        LET lines == NonBlankLines(call'.text)
        IN  /\ (/\ call'.kind = "text" /\ ~ReadError(call')
                /\ Len(lines) > 0
                /\ \A i \in 1..Len(lines) : \A k \in 1..Len(patternMap') :
                     ~Match(lines[i], patternMap'[k][2]).matched)
               => (call'.outcome.status = "resolved" /\ call'.outcome.data = <<>>)
            /\ (call'.outcome.status = "resolved" /\ Len(call'.outcome.data) = 0)
               => (error' # Null /\ extractedData' = Null /\ isLoading' = FALSE)]_vars

\* C9 witness: the App after extractDataFromText resolved with no row
C9_Witness ==
    /\ pending = Null
    /\ call.kind = "text" /\ call.outcome.status = "resolved"
    /\ call.outcome.data = <<>>
    /\ error = Some(MSG_NO_DATA) /\ extractedData = Null /\ ~isLoading

-----------------------------------------------------------------------------
(* Properties of repeated names, of key order and of the consumers *)

\* C11 as claimed: when two or more well-formed lines whose regexes compile
\* share a field name, parsePatterns returns a map that binds the name to
\* the regex of the last of these lines.
C11_AsClaimed ==
    LET lines == NonBlankLines(patternString)
        good == {i \in 1..Len(lines) :
                    WellFormed(lines[i]) /\ Compiles(SourceOf(lines[i]))}
    IN  ParseDone =>
            \A i \in good :
                LET same == {j \in good : NameOf(lines[j]) = NameOf(lines[i])}
                IN  (Cardinality(same) >= 2 /\ \A j \in same : j <= i) =>
                        /\ HasOwn(patternMap, NameOf(lines[i]))
                        /\ Get(patternMap, NameOf(lines[i]))
                             = RegExpOf(SourceOf(lines[i]), TRUE)

\* C11, for the pairs as parsePatterns read them: a name other than
\* "__proto__" that several stored pairs share is bound to the regex of the
\* last of them.
C11_LastStoredPairWins ==
    LET stored == {i \in 1..Len(parsed) : Stored(parsed[i])}
    IN  ParseDone =>
            \A i \in stored :
                (\A j \in stored : parsed[j].fieldName = parsed[i].fieldName => j <= i)
                => Get(patternMap, parsed[i].fieldName)
                     = RegExpOf(parsed[i].pattern[1], TRUE)

\* the names of the patterns that match the line
Matched(line) ==
    {patternMap[k][1] : k \in {j \in 1..Len(patternMap) :
                                Match(line, patternMap[j][2]).matched}}

\* the place of a key in definition order: a pattern's name stands where a
\* specification line first defined it (the default pattern at 0), then
\* "line_number", then "raw_text"
Rank(name, defs, matched) ==
    IF name \in matched
    THEN IF \E i \in 1..Len(defs) : defs[i] = name
         THEN CHOOSE i \in 1..Len(defs) :
                defs[i] = name /\ \A j \in 1..(i - 1) : defs[j] # name
         ELSE 0
    ELSE IF name = LINE_NUMBER THEN Len(defs) + 1
    ELSE Len(defs) + 2

Presented(data) ==
    LET headers == ObjectKeys(data[1])
    IN  [r \in 1..Len(data) |->
            [h \in 1..Len(headers) |->
                IF HasOwn(data[r], headers[h]) THEN Get(data[r], headers[h]) ELSE <<>>]]

\* the rows under the first row's keys as exportToCsv is seen to write
\* them: the row's own value, or the text "undefined"
PresentedUndefined(data) ==
    LET headers == ObjectKeys(data[1])
    IN  [r \in 1..Len(data) |->
            [h \in 1..Len(headers) |->
                IF HasOwn(data[r], headers[h]) THEN Get(data[r], headers[h]) ELSE UNDEFINED]]

\* the table shows the first row's keys as columns and, in every row, an
\* empty cell for a key the row lacks
TablePresentsEmpty ==
    DataShown =>
        /\ tableHeaders = ObjectKeys(extractedData[1][1])
        /\ TableBody = Presented(extractedData[1])

\* the file an export has just written is a rich-text document
WroteRtf == download' # download /\ download'[1].filename = EXPORT_NAME \o RTF_EXTENSION

\* the file an export has just written is a delimited-text file
WroteCsv == download' # download /\ download'[1].filename = EXPORT_NAME \o CSV_EXTENSION

\* the rich-text document just written has the first row's keys as its
\* fields and an empty value for a key a row lacks
RtfPresentsEmpty ==
    WroteRtf =>
        \E now \in LocaleDates :
            download'[1].content =
                RtfDocument(ObjectKeys(extractedData[1][1]), Presented(extractedData[1]), now)

\* the delimited text just written has the first row's keys as its columns
\* and an empty value for a key a row lacks
CsvPresentsEmpty ==
    WroteCsv =>
        download'[1].content =
            CsvString(ObjectKeys(extractedData[1][1]), Presented(extractedData[1]))

\* C13 as claimed: the table of the App, the file exportToCsv writes and the
\* document createRTFContent builds all take their columns from the first
\* row's keys and present a row that lacks one of those keys with an empty
\* value for it.
C13_AsClaimed == [][TablePresentsEmpty' /\ RtfPresentsEmpty /\ CsvPresentsEmpty]_vars

\* the table and the rich-text document do so; the delimited text has the
\* first row's keys as its columns and the text "undefined" for a key a row
\* lacks
C13_CsvWritesUndefined ==
    [][/\ TablePresentsEmpty'
       /\ RtfPresentsEmpty
       /\ WroteCsv =>
            download'[1].content =
                CsvString(ObjectKeys(extractedData[1][1]),
                          PresentedUndefined(extractedData[1]))]_vars

\* a delimited-text file has been written from rows of which one lacks a key
\* of the first
C13_Witness ==
    /\ DataShown
    /\ download # Null /\ download[1].filename = EXPORT_NAME \o CSV_EXTENSION
    /\ \E r \in 1..Len(extractedData[1]) :
         \E h \in 1..Len(tableHeaders) : ~HasOwn(extractedData[1][r], tableHeaders[h])

=============================================================================
